---- MODULE Spec2Model ----
(***************************************************************************)
(* scripts/whisper_transcribe.py: one run of the Whisper command-line      *)
(* adapter.  A run is the module-level ffmpeg path discovery followed by    *)
(* main(): argparse, the audio-file check, transcribe_audio() (device      *)
(* resolution, whisper.load_model, model.transcribe) and the JSON output.  *)
(* The collaborators load_model and transcribe are opaque: each call       *)
(* either returns or raises an Exception.                                  *)
(***************************************************************************)
EXTENDS Integers, Sequences, FiniteSets, TLC

VARIABLES
    pc,           \* position of the run in the script
    argv,         \* the command line (never changes)
    fs,           \* the set of paths that exist on disk (never changes)
    cudaAvailable,\* outcome of torch.cuda.is_available() (never changes)
    origPATH,     \* os.environ["PATH"] when the process started (history)
    PATH,         \* os.environ["PATH"] now; None when unset
    args,         \* the argparse Namespace, None before parse_args returns
    device,       \* transcribe_audio's local `device`, "" before it is bound
    params,       \* transcribe_params, None before it is built
    result,       \* the value model.transcribe returned, None before
    trace,        \* everything the run did that is visible from outside, in order
    exitStatus    \* the process exit status Exit(n), None while running

vars == <<pc, argv, fs, cudaAvailable, origPATH, PATH, args, device, params,
          result, trace, exitStatus>>

-----------------------------------------------------------------------------
(* Bounds of the collaborator results that the output shaping is checked on *)

MaxStrLen == 3
MaxSegments == 2

-----------------------------------------------------------------------------
(* Python values *)

\* Python's None, kept apart from every string (in particular from "None")
None == [t |-> "None"]
Str(s) == [t |-> "str", v |-> s]

\* the status a terminated process leaves
Exit(n) == [t |-> "exit", code |-> n]

\* truth value of an optional string: None and "" are false
Truthy(x) == x # None /\ x.v # ""

\* str.strip(): the text as a sequence of characters
Chars == {" ", "a"}
Whitespace == {" "}

RECURSIVE LStrip(_)
LStrip(s) ==
    IF s # <<>> /\ Head(s) \in Whitespace THEN LStrip(Tail(s)) ELSE s

RECURSIVE RStrip(_)
RStrip(s) ==
    IF s # <<>> /\ s[Len(s)] \in Whitespace
    THEN RStrip(SubSeq(s, 1, Len(s) - 1))
    ELSE s

Strip(s) == RStrip(LStrip(s))

-----------------------------------------------------------------------------
(* The outside-visible events of a run *)

Ev(ch, kind, arg) == [ch |-> ch, kind |-> kind, arg |-> arg]

Stdout == SelectSeq(trace, LAMBDA e : e.ch = "stdout")
Stderr == SelectSeq(trace, LAMBDA e : e.ch = "stderr")
Calls  == SelectSeq(trace, LAMBDA e : e.ch = "call")

-----------------------------------------------------------------------------
(* Module level: ffmpeg path discovery *)

ScriptDir == "app/scripts"
Ffmpeg    == "app/scripts/ffmpeg.exe"
ExtraDir  == "app/extra"
PathSep   == ":"

\* extra_dir: the script's directory when ffmpeg.exe is next to the script,
\* else ../extra
HelperDir(files) == IF Ffmpeg \in files THEN ScriptDir ELSE ExtraDir

\* str(extra_dir) + os.pathsep + os.environ.get("PATH", "")
PrependPath(dir, path) ==
    Str(<<dir, PathSep>> \o (IF path = None THEN <<>> ELSE path.v))

NewPath_unchecked(files, path) == PrependPath(HelperDir(files), path)

\* if extra_dir.exists(): os.environ["PATH"] = ...
NewPath(files, path) ==
    IF HelperDir(files) \in files
    THEN PrependPath(HelperDir(files), path)
    ELSE path

PathDiscovery ==
    /\ pc = "startup"
    /\ PATH' = NewPath(fs, PATH)
    /\ pc' = "parse"
    /\ UNCHANGED <<argv, fs, cudaAvailable, origPATH, args, device, params,
                   result, trace, exitStatus>>

-----------------------------------------------------------------------------
(* main(): argparse *)

IsFloat(s) == s \in {"0", "0.5"}

\* parser.parse_args(): -h prints the help and exits as soon as it is met;
\* a value that float() rejects is an error as soon as its option is met;
\* a missing required positional is an error at the end of the scan.
ParseArgs(av) ==
    LET bad == av.temperature # None /\ ~IsFloat(av.temperature.v)
        n   == Len(av.positionals)
    IN  IF av.help = "before" \/ (av.help = "after" /\ ~bad)
        THEN [outcome |-> "help"]
        ELSE IF bad
        THEN [outcome |-> "error", message |-> "invalid float value"]
        ELSE IF n = 0
        THEN [outcome |-> "error", message |-> "arguments are required"]
        ELSE [outcome |-> "ok",
              ns |-> [audio_file  |-> av.positionals[1],
                      model       |-> IF n >= 2 THEN av.positionals[2] ELSE "base",
                      language    |-> IF n >= 3 THEN av.positionals[3] ELSE "",
                      device      |-> IF av.device = None THEN "auto" ELSE av.device.v,
                      temperature |-> IF av.temperature = None THEN "0"
                                      ELSE av.temperature.v,
                      no_fp16     |-> av.no_fp16,
                      translate   |-> av.translate]]

ParseHelp ==
    /\ pc = "parse"
    /\ ParseArgs(argv).outcome = "help"
    /\ trace' = Append(trace, Ev("stdout", "help", "usage"))
    /\ exitStatus' = Exit(0)
    /\ pc' = "done"
    /\ UNCHANGED <<argv, fs, cudaAvailable, origPATH, PATH, args, device,
                   params, result>>

ParseError ==
    /\ pc = "parse"
    /\ ParseArgs(argv).outcome = "error"
    /\ trace' = trace \o <<Ev("stderr", "usage", "usage"),
                           Ev("stderr", "error", ParseArgs(argv).message)>>
    /\ exitStatus' = Exit(2)
    /\ pc' = "done"
    /\ UNCHANGED <<argv, fs, cudaAvailable, origPATH, PATH, args, device,
                   params, result>>

ParseOk ==
    /\ pc = "parse"
    /\ ParseArgs(argv).outcome = "ok"
    /\ args' = ParseArgs(argv).ns
    /\ pc' = "check"
    /\ UNCHANGED <<argv, fs, cudaAvailable, origPATH, PATH, device, params,
                   result, trace, exitStatus>>

-----------------------------------------------------------------------------
(* main(): the audio file check *)

\* str(Path(s)): pathlib drops a leading "./"
PathStr(s) == IF s = "./in.wav" THEN "in.wav" ELSE s

Exists(files, s) == PathStr(s) \in files

AudioNotFound ==
    /\ pc = "check"
    /\ ~Exists(fs, args.audio_file)
    /\ trace' = Append(trace, Ev("stderr", "Error: Audio file not found",
                                 PathStr(args.audio_file)))
    /\ exitStatus' = Exit(1)
    /\ pc' = "done"
    /\ UNCHANGED <<argv, fs, cudaAvailable, origPATH, PATH, args, device,
                   params, result>>

AudioFound ==
    /\ pc = "check"
    /\ Exists(fs, args.audio_file)
    /\ pc' = "device"
    /\ UNCHANGED <<argv, fs, cudaAvailable, origPATH, PATH, args, device,
                   params, result, trace, exitStatus>>

CheckAudioFile_fallthrough ==
    /\ pc = "check"
    /\ trace' = IF Exists(fs, args.audio_file) THEN trace
                ELSE Append(trace, Ev("stderr", "Error: Audio file not found",
                                      PathStr(args.audio_file)))
    /\ pc' = "device"
    /\ UNCHANGED <<argv, fs, cudaAvailable, origPATH, PATH, args, device,
                   params, result, exitStatus>>

CheckAudioFile == AudioNotFound \/ AudioFound

-----------------------------------------------------------------------------
(* main(): the except clause *)

HandleException_stdout(tr) ==
    tr \o <<Ev("stdout", "Error during transcription", "e"),
            Ev("stderr", "traceback", "e")>>

\* print(f"Error during transcription: {e}", file=sys.stderr); traceback
HandleException(tr) ==
    tr \o <<Ev("stderr", "Error during transcription", "e"),
            Ev("stderr", "traceback", "e")>>

-----------------------------------------------------------------------------
(* transcribe_audio() *)

\* if device == "auto": device = "cuda" if torch.cuda.is_available() else "cpu"
ResolvedDevice(d, avail) ==
    IF d = "auto" THEN (IF avail THEN "cuda" ELSE "cpu") ELSE d

\* the status lines up to the load_model call
StatusLines(d, avail, model) ==
    <<Ev("stderr", "Using device", d)>>
    \o (IF d = "cuda" /\ avail THEN <<Ev("stderr", "GPU", "gpu0")>> ELSE <<>>)
    \o <<Ev("stderr", "Loading Whisper model", model)>>

\* main()'s keyword argument: language=args.language if args.language else None
MainLanguage(ns) == IF ns.language # "" THEN Str(ns.language) ELSE None

ParamLanguage_str(language) ==
    IF language = None THEN Str("None") ELSE language

\* "language": language if language else None
ParamLanguage(language) == IF Truthy(language) THEN language ELSE None

ParamFp16_any_device(fp16, d) == fp16

\* "fp16": fp16 and device == "cuda"
ParamFp16(fp16, d) == fp16 /\ d = "cuda"

BaseParams(ns, d) ==
    [language    |-> ParamLanguage(MainLanguage(ns)),
     fp16        |-> ParamFp16(~ns.no_fp16, d),
     verbose     |-> FALSE,
     temperature |-> ns.temperature]

TranscribeParams_task_always(ns, d) ==
    BaseParams(ns, d) @@ [task |-> "translate"]

\* transcribe_params, with "task" added only when translate is set
TranscribeParams(ns, d) ==
    IF ns.translate
    THEN BaseParams(ns, d) @@ [task |-> "translate"]
    ELSE BaseParams(ns, d)

\* entry of transcribe_audio up to the call of whisper.load_model
CallLoadModel ==
    /\ pc = "device"
    /\ device' = ResolvedDevice(args.device, cudaAvailable)
    /\ trace' = trace \o StatusLines(device', cudaAvailable, args.model)
                      \o <<Ev("call", "load_model", <<args.model, device'>>)>>
    /\ pc' = "in_load"
    /\ UNCHANGED <<argv, fs, cudaAvailable, origPATH, PATH, args, params,
                   result, exitStatus>>

LoadModelRaises_no_exit ==
    /\ pc = "in_load"
    /\ trace' = HandleException(Append(trace, Ev("raise", "load_model", "e")))
    /\ exitStatus' = Exit(0)
    /\ pc' = "done"
    /\ UNCHANGED <<argv, fs, cudaAvailable, origPATH, PATH, args, device,
                   params, result>>

LoadModelRaises_retry ==
    /\ pc = "in_load"
    /\ trace' = trace \o <<Ev("raise", "load_model", "e"),
                           Ev("call", "load_model", <<args.model, device>>)>>
    /\ pc' = "in_load_again"
    /\ UNCHANGED <<argv, fs, cudaAvailable, origPATH, PATH, args, device,
                   params, result, exitStatus>>

\* load_model raises: the except clause of main() reports and exits with 1
LoadModelRaises ==
    /\ pc = "in_load"
    /\ trace' = HandleException(Append(trace, Ev("raise", "load_model", "e")))
    /\ exitStatus' = Exit(1)
    /\ pc' = "done"
    /\ UNCHANGED <<argv, fs, cudaAvailable, origPATH, PATH, args, device,
                   params, result>>

LoadModelReturns ==
    /\ pc = "in_load"
    /\ trace' = Append(trace, Ev("ret", "load_model", "model"))
    /\ pc' = "loaded"
    /\ UNCHANGED <<argv, fs, cudaAvailable, origPATH, PATH, args, device,
                   params, result, exitStatus>>

\* from the "Transcribing" line to the call of model.transcribe
CallTranscribe ==
    /\ pc = "loaded"
    /\ params' = TranscribeParams(args, device)
    /\ trace' = trace \o <<Ev("stderr", "Transcribing", PathStr(args.audio_file)),
                           Ev("stderr", "Progress", "0%"),
                           Ev("call", "transcribe",
                              <<PathStr(args.audio_file), params'>>)>>
    /\ pc' = "in_transcribe"
    /\ UNCHANGED <<argv, fs, cudaAvailable, origPATH, PATH, args, device,
                   result, exitStatus>>

TranscribeRaises_finally ==
    /\ pc = "in_transcribe"
    /\ trace' = HandleException(trace \o <<Ev("raise", "transcribe", "e"),
                                           Ev("stderr", "Progress", "100%")>>)
    /\ exitStatus' = Exit(1)
    /\ pc' = "done"
    /\ UNCHANGED <<argv, fs, cudaAvailable, origPATH, PATH, args, device,
                   params, result>>

TranscribeRaises ==
    /\ pc = "in_transcribe"
    /\ trace' = HandleException(Append(trace, Ev("raise", "transcribe", "e")))
    /\ exitStatus' = Exit(1)
    /\ pc' = "done"
    /\ UNCHANGED <<argv, fs, cudaAvailable, origPATH, PATH, args, device,
                   params, result>>

-----------------------------------------------------------------------------
(* What model.transcribe returns *)

\* a segment as whisper returns it: start, end, text and further keys
Seg(text) ==
    [id |-> 0, start |-> Len(text), end |-> Len(text) + 1, text |-> text,
     words |-> <<>>]

Texts(n) == UNION {[1..k -> Chars] : k \in 0..n}

SegLists(n, m) == UNION {[1..k -> {Seg(s) : s \in Texts(n)}] : k \in 0..m}

\* the results the output shaping is checked on
BoundedResults ==
    [text : Texts(MaxStrLen), language : {"en", "es"},
     segments : SegLists(MaxStrLen - 1, MaxSegments)]

\* the results a whole run is checked on; the last one lacks keys
CollaboratorResults ==
    {[text |-> <<" ", "a", " ">>, language |-> "en",
      segments |-> <<Seg(<<" ", "a">>), Seg(<<"a", " ", "a">>)>>],
     [text |-> <<>>, language |-> "es", segments |-> <<>>],
     [text |-> <<"a">>]}

TranscribeReturns ==
    /\ pc = "in_transcribe"
    /\ \E r \in CollaboratorResults :
         /\ result' = r
         /\ trace' = trace \o <<Ev("ret", "transcribe", r),
                                Ev("stderr", "Progress", "100%")>>
    /\ pc' = "emit"
    /\ UNCHANGED <<argv, fs, cudaAvailable, origPATH, PATH, args, device,
                   params, exitStatus>>

-----------------------------------------------------------------------------
(* main(): output shaping *)

\* result["text"], result["language"] and result["segments"] do not raise
WellFormed(r) == {"text", "language", "segments"} \subseteq DOMAIN r

OutputSegment_passthrough(seg) == [seg EXCEPT !.text = Strip(seg.text)]

OutputSegment(seg) ==
    [start |-> seg.start, end |-> seg.end, text |-> Strip(seg.text)]

Output(r) ==
    [text     |-> Strip(r.text),
     language |-> r.language,
     segments |-> [i \in 1..Len(r.segments) |-> OutputSegment(r.segments[i])]]

\* print(json.dumps(output, ensure_ascii=False)): one line holding the document
JsonLine(output) == Ev("stdout", "json", output)

EmitResult ==
    /\ pc = "emit"
    /\ WellFormed(result)
    /\ trace' = Append(trace, JsonLine(Output(result)))
    /\ pc' = "return"
    /\ UNCHANGED <<argv, fs, cudaAvailable, origPATH, PATH, args, device,
                   params, result, exitStatus>>

\* a key is missing from the result: KeyError, caught by the except clause
EmitRaises ==
    /\ pc = "emit"
    /\ ~WellFormed(result)
    /\ trace' = HandleException(Append(trace, Ev("raise", "output", "KeyError")))
    /\ exitStatus' = Exit(1)
    /\ pc' = "done"
    /\ UNCHANGED <<argv, fs, cudaAvailable, origPATH, PATH, args, device,
                   params, result>>

\* main() returns and the interpreter exits
MainReturns ==
    /\ pc = "return"
    /\ exitStatus' = Exit(0)
    /\ pc' = "done"
    /\ UNCHANGED <<argv, fs, cudaAvailable, origPATH, PATH, args, device,
                   params, result, trace>>

-----------------------------------------------------------------------------
(* Runs *)

AudioArgs == {"in.wav", "./in.wav"}

Positionals ==
    {<<>>} \cup {<<a>> : a \in AudioArgs}
           \cup {<<"in.wav", "tiny">>}
           \cup {<<"in.wav", "tiny", l>> : l \in {"", "en", "None"}}

\* help: where -h stands relative to --temperature, or "absent"
CommandLines ==
    [positionals : Positionals,
     help        : {"absent", "before", "after"},
     device      : {None, Str("cuda"), Str("cpu")},
     temperature : {None, Str("0.5"), Str("hot")},
     no_fp16     : BOOLEAN,
     translate   : BOOLEAN]

\* the script's own directory always exists
FileSystems == {{ScriptDir} \cup S : S \in SUBSET {Ffmpeg, ExtraDir, "in.wav"}}

Init ==
    /\ pc = "startup"
    /\ argv \in CommandLines
    /\ fs \in FileSystems
    /\ cudaAvailable \in BOOLEAN
    /\ origPATH \in {None, Str(<<"/usr/bin">>)}
    /\ PATH = origPATH
    /\ args = None
    /\ device = ""
    /\ params = None
    /\ result = None
    /\ trace = <<>>
    /\ exitStatus = None

Next ==
    \/ PathDiscovery
    \/ ParseHelp
    \/ ParseError
    \/ ParseOk
    \/ CheckAudioFile
    \/ CallLoadModel
    \/ LoadModelRaises
    \/ LoadModelReturns
    \/ CallTranscribe
    \/ TranscribeRaises
    \/ TranscribeReturns
    \/ EmitResult
    \/ EmitRaises
    \/ MainReturns

Spec == Init /\ [][Next]_vars

\* The output shaping on its own: a default run of `in.wav` on a machine
\* without accelerator, at the point where model.transcribe has returned.
ShapeArgv ==
    [positionals |-> <<"in.wav">>, help |-> "absent", device |-> None,
     temperature |-> None, no_fp16 |-> FALSE, translate |-> FALSE]

InitShape ==
    /\ pc = "emit"
    /\ argv = ShapeArgv
    /\ fs = {ScriptDir, ExtraDir, "in.wav"}
    /\ cudaAvailable = FALSE
    /\ origPATH = None
    /\ PATH = NewPath(fs, origPATH)
    /\ args = ParseArgs(argv).ns
    /\ device = ResolvedDevice(args.device, cudaAvailable)
    /\ params = TranscribeParams(args, device)
    /\ result \in BoundedResults
    /\ trace = StatusLines(device, cudaAvailable, args.model)
               \o <<Ev("call", "load_model", <<args.model, device>>),
                    Ev("ret", "load_model", "model"),
                    Ev("stderr", "Transcribing", PathStr(args.audio_file)),
                    Ev("stderr", "Progress", "0%"),
                    Ev("call", "transcribe", <<PathStr(args.audio_file), params>>),
                    Ev("ret", "transcribe", result),
                    Ev("stderr", "Progress", "100%")>>
    /\ exitStatus = None

NextShape == EmitResult \/ MainReturns

SpecShape == InitShape /\ [][NextShape]_vars

-----------------------------------------------------------------------------
(* Vocabulary of the properties *)

\* positions of the events of one channel and kind
Where(ch, kind) ==
    {i \in 1..Len(trace) : trace[i].ch = ch /\ trace[i].kind = kind}

Markers(m) == {i \in Where("stderr", "Progress") : trace[i].arg = m}

CollaboratorRaised == Where("raise", "load_model") \cup Where("raise", "transcribe")

\* the options records handed to model.transcribe
PassedParams == {trace[i].arg[2] : i \in Where("call", "transcribe")}

\* the language positional as written on the command line, "" when omitted
GivenLanguage ==
    IF Len(argv.positionals) >= 3 THEN argv.positionals[3] ELSE ""

\* a complete result document: the three keys, every segment with its three
IsResultDocument(d) ==
    /\ DOMAIN d = {"text", "language", "segments"}
    /\ \A i \in 1..Len(d.segments) :
         DOMAIN d.segments[i] = {"start", "end", "text"}

\* t is s without its leading and trailing whitespace
IsTrimOf(t, s) ==
    /\ t # <<>> => Head(t) \notin Whitespace /\ t[Len(t)] \notin Whitespace
    /\ \E i \in 1..(Len(s) + 1) :
         /\ i + Len(t) - 1 <= Len(s)
         /\ t = SubSeq(s, i, i + Len(t) - 1)
         /\ \A k \in 1..Len(s) :
              (k < i \/ k > i + Len(t) - 1) => s[k] \in Whitespace

JsonOnStdout == Len(Stdout) = 1 /\ Stdout[1].kind = "json"

-----------------------------------------------------------------------------
(* C1 *)

\* C1, as claimed: in every reachable state stdout is empty or exactly one
\* complete JSON result line, and it is non-empty only in a run that ends
\* with exit status 0.  Fails: -h makes argparse print the help on stdout.
C1_StdoutEmptyOrJson ==
    /\ Stdout = <<>> \/ (JsonOnStdout /\ IsResultDocument(Stdout[1].arg))
    /\ Stdout # <<>> =>
         pc = "return" \/ (pc = "done" /\ exitStatus = Exit(0))

\* C1, amended: in every reachable state stdout is empty, or exactly one
\* complete JSON result line, or -- only when -h/--help is on the command
\* line -- exactly the argparse help text; no status line, progress marker or
\* error text is ever on stdout, and stdout is non-empty only in a run that
\* ends with exit status 0.
C1_StdoutEmptyJsonOrHelp ==
    /\ \/ Stdout = <<>>
       \/ JsonOnStdout /\ IsResultDocument(Stdout[1].arg)
       \/ /\ Len(Stdout) = 1
          /\ Stdout[1].kind = "help"
          /\ argv.help # "absent"
          /\ Calls = <<>>
    /\ Stdout # <<>> =>
         pc = "return" \/ (pc = "done" /\ exitStatus = Exit(0))

\* a run whose collaborator returned has its one JSON line on stdout and exit 0
C1_Witness ==
    /\ pc = "done"
    /\ exitStatus = Exit(0)
    /\ JsonOnStdout
    /\ Where("ret", "transcribe") # {}

-----------------------------------------------------------------------------
(* C2 *)

\* the audio path given on the command line does not exist
AudioPathMissing ==
    Len(argv.positionals) > 0 /\ PathStr(argv.positionals[1]) \notin fs

\* C2, as claimed: when the audio path given on the command line does not
\* exist, the run calls neither load_model nor transcribe, writes nothing to
\* stdout, and ends with status 1 and an error line on stderr that carries
\* the path.  Fails: with -h or a malformed option value on the same command
\* line argparse ends the run before the path is looked at.
C2_MissingAudioFile ==
    AudioPathMissing =>
        /\ Calls = <<>>
        /\ Stdout = <<>>
        /\ pc = "done" =>
             /\ exitStatus = Exit(1)
             /\ \E i \in Where("stderr", "Error: Audio file not found") :
                  trace[i].arg = PathStr(argv.positionals[1])

\* C2, amended: when the audio path given on the command line does not
\* exist, neither load_model nor transcribe is ever called; if moreover the
\* argument parser accepts the command line (no -h, every option value well
\* formed), the run never gets past the check, writes nothing to stdout, and
\* ends with status 1 and an error line on stderr that carries the path.
C2_MissingAudioFileAccepted ==
    AudioPathMissing =>
        /\ Calls = <<>>
        /\ pc \in {"startup", "parse", "check", "done"}
        /\ ParseArgs(argv).outcome = "ok" =>
             /\ Stdout = <<>>
             /\ pc = "done" =>
                  /\ exitStatus = Exit(1)
                  /\ \E i \in Where("stderr", "Error: Audio file not found") :
                       trace[i].arg = PathStr(argv.positionals[1])

\* the run of `./in.wav` with no such file has ended
C2_Witness ==
    /\ pc = "done"
    /\ args # None
    /\ argv.positionals[1] = "./in.wav"
    /\ "in.wav" \notin fs
    /\ exitStatus = Exit(1)

-----------------------------------------------------------------------------
(* C3 *)

\* C3: once load_model or transcribe has raised, the run is over with status
\* 1, stdout is empty and stderr holds exactly one error message, written
\* after the raise; load_model and transcribe are each called at most once,
\* and transcribe only after load_model.
C3_RaiseCaughtOnce ==
    /\ CollaboratorRaised # {} =>
         /\ pc = "done"
         /\ exitStatus = Exit(1)
         /\ Stdout = <<>>
         /\ Cardinality(Where("stderr", "Error during transcription")) = 1
         /\ \A i \in CollaboratorRaised :
              \A j \in Where("stderr", "Error during transcription") : i < j
    /\ Cardinality(CollaboratorRaised) <= 1
    /\ Cardinality(Where("call", "load_model")) <= 1
    /\ Cardinality(Where("call", "transcribe")) <= 1
    /\ \A j \in Where("call", "transcribe") :
         \E i \in Where("call", "load_model") : i < j

\* transcribe raised after load_model had returned
C3_Witness ==
    /\ pc = "done"
    /\ Where("raise", "transcribe") # {}
    /\ Where("ret", "load_model") # {}

-----------------------------------------------------------------------------
(* C4 *)

\* C4, as claimed: a terminated run has status 0 or 1; 0 only with the JSON
\* line on stdout; 1 for a missing audio-file argument, a nonexistent audio
\* path and every failure of loading or transcription.  Fails: argparse
\* exits with 2 on a command line it rejects, and with 0 after -h.
C4_ExitZeroOrOne ==
    pc = "done" =>
        /\ exitStatus \in {Exit(0), Exit(1)}
        /\ exitStatus = Exit(0) => JsonOnStdout
        /\ Len(argv.positionals) = 0 => exitStatus = Exit(1)
        /\ (Len(argv.positionals) > 0 /\ PathStr(argv.positionals[1]) \notin fs)
             => exitStatus = Exit(1)
        /\ CollaboratorRaised # {} => exitStatus = Exit(1)

\* C4, amended: a terminated run has status 0, 1 or 2, and a running one has
\* none; 0 only with the JSON line on stdout or after the help that -h asks
\* for; 2 exactly for the command lines argparse rejects (audio-file argument
\* missing, option value that is no float); 1 for a nonexistent audio path on
\* an accepted command line and for every failure of loading or
\* transcription.
C4_ExitZeroOneOrTwo ==
    /\ pc # "done" => exitStatus = None
    /\ pc = "done" =>
        /\ exitStatus \in {Exit(0), Exit(1), Exit(2)}
        /\ exitStatus = Exit(0) =>
             \/ JsonOnStdout
             \/ argv.help # "absent" /\ Len(Stdout) = 1 /\ Stdout[1].kind = "help"
        /\ exitStatus = Exit(2) <=> ParseArgs(argv).outcome = "error"
        /\ (argv.help = "absent" /\ Len(argv.positionals) = 0)
             => exitStatus = Exit(2)
        /\ (ParseArgs(argv).outcome = "ok" /\ PathStr(argv.positionals[1]) \notin fs)
             => exitStatus = Exit(1)
        /\ CollaboratorRaised # {} => exitStatus = Exit(1)

\* the run without audio-file argument has ended with status 2
C4_Witness ==
    /\ pc = "done"
    /\ argv.positionals = <<>>
    /\ argv.help = "absent"
    /\ exitStatus = Exit(2)

-----------------------------------------------------------------------------
(* C5 *)

\* C5: the emitted document has exactly the keys text, language, segments;
\* text is the result's text trimmed, language the result's language, and
\* segments has the length and order of the result's segments, each element
\* with exactly start and end unchanged and text trimmed.
C5_OutputShape ==
    Where("stdout", "json") # {} =>
        LET d == Stdout[1].arg
        IN  /\ JsonOnStdout
            /\ DOMAIN d = {"text", "language", "segments"}
            /\ IsTrimOf(d.text, result.text)
            /\ d.language = result.language
            /\ Len(d.segments) = Len(result.segments)
            /\ \A i \in 1..Len(result.segments) :
                 /\ DOMAIN d.segments[i] = {"start", "end", "text"}
                 /\ d.segments[i].start = result.segments[i].start
                 /\ d.segments[i].end = result.segments[i].end
                 /\ IsTrimOf(d.segments[i].text, result.segments[i].text)

\* a result with padded text and two different padded segments was emitted
C5_Witness ==
    /\ pc = "done"
    /\ JsonOnStdout
    /\ result.text = <<" ", "a", " ">>
    /\ Len(result.segments) = 2
    /\ result.segments[1].text = <<" ", "a">>
    /\ result.segments[2].text = <<"a", " ">>
    /\ "words" \in DOMAIN result.segments[1]

-----------------------------------------------------------------------------
(* C6 *)

\* C6: the options record passed to transcribe has language None when the
\* language positional is omitted or empty (never "" and never the string
\* "None"), and exactly the given string when it is not empty.
C6_LanguageParam ==
    \A p \in PassedParams :
        IF GivenLanguage = ""
        THEN p.language = None /\ p.language # Str("") /\ p.language # Str("None")
        ELSE p.language = Str(GivenLanguage)

\* transcribe was called in a run without language positional
C6_Witness ==
    /\ PassedParams # {}
    /\ Len(argv.positionals) = 1

-----------------------------------------------------------------------------
(* C7 *)

\* C7: the options record passed to transcribe has task "translate" if and
\* only if --translate was given; without --translate it has no task key.
C7_TranslateTask ==
    \A p \in PassedParams :
        /\ ("task" \in DOMAIN p /\ p.task = "translate") <=> argv.translate
        /\ ~argv.translate => "task" \notin DOMAIN p

\* transcribe was called in a run with --translate
C7_Witness ==
    /\ PassedParams # {}
    /\ argv.translate

-----------------------------------------------------------------------------
(* C8 *)

\* C8: stderr holds at most the two progress markers, "0%" first; "0%" is
\* the output right before the call of transcribe, after load_model has
\* returned; "100%" comes right after transcribe returns; "100%" never
\* without "0%" before it, never when transcribe raised, and no marker at
\* all when load_model raised.
C8_ProgressMarkers ==
    /\ Where("stderr", "Progress") = Markers("0%") \cup Markers("100%")
    /\ Cardinality(Markers("0%")) <= 1
    /\ Cardinality(Markers("100%")) <= 1
    /\ \A i \in Markers("0%") :
         /\ i < Len(trace)
         /\ trace[i + 1].ch = "call" /\ trace[i + 1].kind = "transcribe"
         /\ \E k \in Where("ret", "load_model") : k < i
    /\ \A i \in Where("call", "transcribe") : i - 1 \in Markers("0%")
    /\ \A j \in Markers("100%") :
         /\ j - 1 \in Where("ret", "transcribe")
         /\ \E i \in Markers("0%") : i < j
    /\ \A k \in Where("ret", "transcribe") : k + 1 \in Markers("100%")
    /\ Where("raise", "transcribe") # {} => Markers("100%") = {}
    /\ Where("raise", "load_model") # {} => Where("stderr", "Progress") = {}

\* a run that wrote both markers
C8_Witness ==
    /\ pc = "done"
    /\ Markers("0%") # {}
    /\ Markers("100%") # {}

-----------------------------------------------------------------------------
(* C9 *)

\* the device transcribe_audio works with, from the command line
DeviceOfRun ==
    IF argv.device = None
    THEN (IF cudaAvailable THEN "cuda" ELSE "cpu")
    ELSE argv.device.v

\* C9, as claimed: fp16 is true in the passed options exactly when --no-fp16
\* is absent and the resolved device is cuda, and fp16 true implies that the
\* accelerator is available and is the device handed to load_model.  Fails
\* for an explicit --device cuda on a machine without accelerator.
C9_Fp16OnlyWhenAvailable ==
    \A p \in PassedParams :
        /\ p.fp16 <=> (~argv.no_fp16 /\ DeviceOfRun = "cuda")
        /\ p.fp16 =>
             /\ cudaAvailable
             /\ \A i \in Where("call", "load_model") : trace[i].arg[2] = "cuda"

\* C9, amended: fp16 is true in the passed options exactly when --no-fp16 is
\* absent and the resolved device is cuda (auto resolving to cuda if the
\* accelerator is available, else to cpu); fp16 true implies that cuda is the
\* device handed to load_model, and that the accelerator is available when
\* the device was left to auto.
C9_Fp16OnlyOnCuda ==
    \A p \in PassedParams :
        /\ p.fp16 <=> (~argv.no_fp16 /\ DeviceOfRun = "cuda")
        /\ p.fp16 =>
             /\ argv.device = None => cudaAvailable
             /\ Where("call", "load_model") # {}
             /\ \A i \in Where("call", "load_model") : trace[i].arg[2] = "cuda"

\* fp16 was passed as true with --device cuda and no accelerator
C9_Witness ==
    /\ \E p \in PassedParams : p.fp16
    /\ argv.device = Str("cuda")
    /\ ~cudaAvailable

-----------------------------------------------------------------------------
(* C10 *)

\* C10: PATH is the original PATH until path discovery has run, which is
\* before anything is parsed, called or written; from then on, in every
\* state of the run, it is the original PATH with the helper directory
\* (the script's directory if ffmpeg.exe is there, else ../extra) prepended
\* once if that directory exists, and the original PATH otherwise.
C10_PathSetOnce ==
    LET dir == IF Ffmpeg \in fs THEN ScriptDir ELSE ExtraDir
        old == IF origPATH = None THEN <<>> ELSE origPATH.v
    IN  /\ pc = "startup" => PATH = origPATH /\ args = None /\ trace = <<>>
        /\ pc # "startup" =>
             IF dir \in fs
             THEN PATH = Str(<<dir, PathSep>> \o old)
             ELSE PATH = origPATH

\* a failed run in the development layout ends with ../extra still in front
C10_Witness ==
    /\ pc = "done"
    /\ exitStatus = Exit(1)
    /\ Ffmpeg \notin fs
    /\ origPATH # None
    /\ PATH = Str(<<ExtraDir, PathSep>> \o origPATH.v)

====
